---- MODULE Spec2Model ----
(***************************************************************************)
(* Movie_world: the content-enrichment engine (ApiService over the TMDB    *)
(* and OMDB clients), the response cache and the retry helper of           *)
(* utils/apiHelpers.js, and the search effect of App.jsx.                  *)
(*                                                                         *)
(* Conventions.  A JavaScript value that may be null/undefined is a        *)
(* sequence of length at most one: <<>> is null, <<v>> is v.  Ratings are  *)
(* kept in tenths (8.1 is 81).  Array offsets keep the 0-based values of   *)
(* the code; sequences are 1-based, so offset i is position i + 1.         *)
(***************************************************************************)
EXTENDS Integers, Sequences, FiniteSets, TLC

VARIABLES
    \* ---- ApiService.enhanceWithOMDBData (one call) ----
    epc,            \* "idle" | "await" | "done" | "raised"
    tmdbItems,      \* the argument tmdbItems
    maxConcurrent,  \* the argument maxConcurrent
    i,              \* the loop offset i
    enhancedItems,  \* the local enhancedItems
    turn,           \* history: parity of the number of turns of the for loop
    batchPromises,  \* position -> <<>> (pending) or <<settlement>>
    inFlight,       \* positions whose OMDB request is on the wire
    issued,         \* history: positions whose lookup has been issued
    arrival,        \* history: positions in the order their lookups completed
    outcome,        \* history: position -> what the network answered
    returned,       \* <<>> or <<value returned by the call>>
    \* ---- ApiCache (one instance) and the clock Date.now() reads ----
    cache,          \* this.cache: the Map's entries in iteration order
    maxSize,        \* this.maxSize
    ttl,            \* this.ttl
    now,            \* Date.now()
    lastOp,         \* history: the last call on the cache and what it saw
    setCount,       \* history: number of set calls so far
    insSeq,         \* history: key -> number of the set call that inserted it
    setAt,          \* history: key -> <<time of the last set of that key>>
    \* ---- retryApiCall (one call) ----
    rpc,            \* "idle" | "calling" | "waiting" | "returned" | "thrown"
    rMaxRetries,    \* the argument maxRetries
    rDelay,         \* the argument delay
    rI,             \* the loop variable i
    rCalls,         \* history: number of times apiCall() was invoked
    rErrors,        \* history: the error of each failed attempt, in order
    rWaits,         \* history: the setTimeout delays waited, in order
    rThrown,        \* <<>> or <<the error the call rejected with>>
    \* ---- the clients' traffic ----
    requests,       \* history: request key -> calls of the client operation
    netCalls,       \* history: request key -> requests put on the wire
    lastLookup,     \* <<>> or <<settlement of the last OMDB client call>>
    \* ---- EntertainmentPlatform (App.jsx): search ----
    searchQuery,    \* state searchQuery
    searchResults,  \* state searchResults
    isLoading,      \* state isLoading
    error,          \* state error: <<>> (null) or <<message>>
    searchTimeout,  \* <<>> or <<query captured by the pending timeout>>
    searching,      \* the searchContent calls awaiting the network: [id, query]
    typed,          \* history: number of changes of searchQuery
    started,        \* history: number of searches started by the timeout
    latestId,       \* history: id of the search started last (0: it sent no request)
    latestWrote,    \* history: <<>> or <<what the search started last wrote>>
    initializing,   \* initializeApp awaits Promise.all of its two requests
    \* ---- one page request: ApiService over TMDBApi, and its caller ----
    ppc,            \* "idle" | "primary" | "done" | "thrown"
    pOp,            \* "getTrendingContent" | "searchContent" | "searchMulti"
    pQuery,         \* the argument query (search operations)
    pPage,          \* the argument page
    pTmdbCalls,     \* history: requests sent to the TMDB endpoint
    pOmdbCalls,     \* history: requests sent to the OMDB endpoint
    pPrimary,       \* history: <<>> or <<what the TMDB endpoint answered>>
    pResult,        \* <<>> or <<value the operation resolved with>>
    pThrown,        \* <<>> or <<error the operation rejected with>>
    pShown,         \* the caller's error state: <<>> (null) or <<message>>
    \* ---- one call of a merge function ----
    mpc,            \* "idle" | "done"
    mFn,            \* "mergeBasicData" | "mergeDetailedData"
    mTmdb,          \* the argument tmdbItem
    mOmdb,          \* the argument omdbItem: <<>> (null) or <<record>>
    mOut,           \* how the call ended: [threw, value]
    \* ---- ApiService.getGenres ----
    gpc,            \* how the call that settled last ended: "idle" (none yet) |
                    \* "returned" | "thrown"
    gPending,       \* number of calls waiting on Promise.all of the two requests
    gFetches,       \* history: number of times the two requests were sent
    gFirst,         \* history: <<>> or <<list the first successful call cached>>
    gLast,          \* history: the last step: [op, cached (before it), fetched]
    genreCache,     \* this.genreCache: <<>> (no 'all' key) or <<list under 'all'>>
    gMovie,         \* history: the list getMovieGenres resolved with
    gTv,            \* history: the list getTVGenres resolved with
    gReturned,      \* <<>> or <<list the last call resolved with>>
    \* ---- the pagination helpers of utils/apiHelpers.js (the last call) ----
    nOp,            \* "none" | the name of the helper called last
    nArgs,          \* its three arguments
    nPages,         \* what generatePageNumbers returned (<<>> after another helper)
    nRange,         \* what getItemsRange returned: [start, end]
    nInfo,          \* what createPaginationInfo returned
    \* ---- debouncing against a clock: the search effect and debounce() ----
    dNow,           \* the time in ms
    dQuery,         \* state searchQuery
    dTimers,        \* the effect's timeouts not yet run or cleared: [due, value]
    dChangedAt,     \* history: when searchQuery changed last
    dChanges,       \* history: number of changes of searchQuery
    dBurst,         \* history: changes since the effect last had no timeout pending
    dRuns,          \* history: callback runs since then: [at, value, current, since]
    dIssued,        \* history: searchContent calls since then: [at, value]
    hWait,          \* <<>> or <<wait of the debounced function created>>
    hTimers,        \* its timeouts not yet run or cleared: [due, args]
    hArgs,          \* history: arguments of its last call
    hCalledAt,      \* history: when it was called last
    hCalls,         \* history: number of calls of it
    hInvoked,       \* history: calls of func since no timeout was pending: [at, args]
    \* ---- EntertainmentPlatform (App.jsx): the two lists ----
    watchlist,      \* state watchlist
    watchedList,    \* state watchedList
    wLast           \* history: the last click: [op, id, listed (before it)]

enrichVars == <<epc, tmdbItems, maxConcurrent, i, enhancedItems, turn, batchPromises,
                inFlight, issued, arrival, outcome, returned>>

cacheVars == <<cache, maxSize, ttl, now, lastOp, setCount, insSeq, setAt>>

retryVars == <<rpc, rMaxRetries, rDelay, rI, rCalls, rErrors, rWaits, rThrown>>

clientVars == <<requests, netCalls, lastLookup>>

appVars == <<searchQuery, searchResults, isLoading, error, searchTimeout, searching,
             typed, started, latestId, latestWrote, initializing>>

pageVars == <<ppc, pOp, pQuery, pPage, pTmdbCalls, pOmdbCalls, pPrimary, pResult,
              pThrown, pShown>>

mergeVars == <<mpc, mFn, mTmdb, mOmdb, mOut>>

genreVars ==
    <<gpc, gPending, gFetches, gFirst, gLast, genreCache, gMovie, gTv, gReturned>>

navVars ==
    <<nOp, nArgs, nPages, nRange, nInfo>>

debounceVars ==
    <<dNow, dQuery, dTimers, dChangedAt, dChanges, dBurst, dRuns, dIssued, hWait,
      hTimers, hArgs, hCalledAt, hCalls, hInvoked>>

listVars ==
    <<watchlist, watchedList, wLast>>

vars == <<enrichVars, cacheVars, retryVars, clientVars, appVars, pageVars, mergeVars,
          genreVars,
          navVars,
          debounceVars,
          listVars>>

\* What a step of one component leaves alone.
notEnrich ==
    <<cacheVars, retryVars, clientVars, appVars, pageVars, mergeVars, genreVars,
      navVars,
      debounceVars,
      listVars>>
notCache ==
    <<enrichVars, retryVars, clientVars, appVars, pageVars, mergeVars, genreVars,
      navVars,
      debounceVars,
      listVars>>
notRetry ==
    <<enrichVars, cacheVars, clientVars, appVars, pageVars, mergeVars, genreVars,
      navVars,
      debounceVars,
      listVars>>
notClient ==
    <<enrichVars, cacheVars, retryVars, appVars, pageVars, mergeVars, genreVars,
      navVars,
      debounceVars,
      listVars>>
notApp ==
    <<enrichVars, cacheVars, retryVars, clientVars, pageVars, mergeVars, genreVars,
      navVars,
      debounceVars,
      listVars>>
notPage ==
    <<enrichVars, cacheVars, retryVars, clientVars, appVars, mergeVars, genreVars,
      navVars,
      debounceVars,
      listVars>>
notMerge ==
    <<enrichVars, cacheVars, retryVars, clientVars, appVars, pageVars, genreVars,
      navVars,
      debounceVars,
      listVars>>
notNav ==
    <<enrichVars, cacheVars, retryVars, clientVars, appVars, pageVars, mergeVars,
      genreVars,
      debounceVars,
      listVars>>
notGenre ==
    <<enrichVars, cacheVars, retryVars, clientVars, appVars, pageVars, mergeVars,
      navVars,
      debounceVars,
      listVars>>
notList ==
    <<enrichVars, cacheVars, retryVars, clientVars, appVars, pageVars, mergeVars,
      genreVars, navVars, debounceVars>>
notDebounce ==
    <<enrichVars, cacheVars, retryVars, clientVars, appVars, pageVars, mergeVars,
      genreVars, navVars,
      listVars>>

----------------------------------------------------------------------------
\* Bounds of the model.
MaxItems == 3
MaxConcurrent == 3
MaxCap == 2
MaxTtl == 2
MaxClock == 3
MaxSets == 3
MaxRetries == 3
MaxDelay == 2
MaxRequests == 2
MaxTyped == 3
MaxPageItems == 2
MaxGenres == 2
MaxPending == 2
MaxFetches == 3

Min(a, b) == IF a < b THEN a ELSE b
Max(a, b) == IF a > b THEN a ELSE b
Range(s) == {s[n] : n \in DOMAIN s}

RECURSIVE SeqsUpTo(_, _)
SeqsUpTo(S, n) ==
    IF n = 0 THEN {<<>>}
    ELSE LET shorter == SeqsUpTo(S, n - 1)
         IN  shorter \cup {Append(s, e) : s \in {t \in shorter : Len(t) = n - 1}, e \in S}

----------------------------------------------------------------------------
\* The two sources.

\* Records as TMDBApi.transformTrendingData produces them (the fields the
\* engine and the merge read).
Movie1 == [id |-> 1, title |-> "Alpha", type |-> "movie", year |-> 2001,
           plot |-> "short", rating |-> 70]
Show2 == [id |-> 2, title |-> "Beta", type |-> "tv", year |-> 2010,
          plot |-> "a considerably longer plot description", rating |-> 55]
Catalog == {Movie1, Show2}

\* What the OMDB endpoint holds for a title (the flat JSON object).
OmdbPayload(title) ==
    IF title = "Alpha"
    THEN [Response |-> "True", imdbID |-> "tt0001", Title |-> "Alpha",
          Rated |-> "PG", Runtime |-> "120 min", Director |-> "Ann Lee",
          Writer |-> "Bo Ray", Actors |-> "Cy Poe, Di Fox",
          Plot |-> "a considerably longer plot description",
          Awards |-> "N/A", imdbRating |-> "8.1", imdbVotes |-> <<"1,234">>,
          BoxOffice |-> "$1,000",
          Ratings |-> << [Source |-> "Rotten Tomatoes", Value |-> "91%"] >>]
    ELSE [Response |-> "True", imdbID |-> "tt0002", Title |-> "Beta",
          Rated |-> "TV-14", Runtime |-> "45 min", Director |-> "N/A",
          Writer |-> "Ed Kim", Actors |-> "",
          Plot |-> "short",
          Awards |-> "1 win", imdbRating |-> "N/A", imdbVotes |-> <<"N/A">>,
          BoxOffice |-> "N/A",
          Ratings |-> << >>]

\* A payload of an unexpected shape: data without its imdbVotes property.
MalformedPayload(data) == [data EXCEPT !.imdbVotes = <<>>]

\* What one request to the OMDB endpoint can come back with: the title's
\* payload, the "Response: False" sentinel, a network failure, a malformed
\* payload.
NetOutcomes == {"ok", "false", "neterr", "malformed"}

\* parseFloat / parseInt on the numeric strings of the payloads, in tenths
\* for parseFloat.
ParseFloat(s) ==
    CASE s = "8.1" -> 81
      [] s = "6.4" -> 64
      [] s = "0.0" -> 0

ParseInt(s) ==
    CASE s = "91%" -> 91
      [] s = "74/100" -> 74
      [] s = "0%" -> 0

\* String.replace(/,/g, '') on the vote counts of the payloads.
StripCommas(s) ==
    CASE s = "1,234" -> "1234"

\* String.split(', ') on the actor lists of the payloads.
SplitNames(s) ==
    CASE s = "Cy Poe, Di Fox" -> <<"Cy Poe", "Di Fox">>
      [] s = "Ed Kim" -> <<"Ed Kim">>

RECURSIVE RatingFrom(_, _)
\* ratingMap[source] after the forEach: the last entry of that source wins.
RatingFrom(ratings, source) ==
    IF ratings = <<>> THEN <<>>
    ELSE LET last == ratings[Len(ratings)]
         IN  IF last.Source = source THEN <<ParseInt(last.Value)>>
             ELSE RatingFrom(SubSeq(ratings, 1, Len(ratings) - 1), source)

transformRatings(ratings) ==
    [rottenTomatoes |-> RatingFrom(ratings, "Rotten Tomatoes"),
     metacritic |-> RatingFrom(ratings, "Metacritic")]

transformOMDBData(data) ==
    [imdbId |-> data.imdbID,
     title |-> data.Title,
     rated |-> data.Rated,
     runtime |-> data.Runtime,
     director |-> data.Director,
     writer |-> data.Writer,
     actors |-> IF data.Actors # "" THEN SplitNames(data.Actors) ELSE <<>>,
     plot |-> data.Plot,
     awards |-> data.Awards,
     ratings |-> transformRatings(data.Ratings),
     imdbRating |-> IF data.imdbRating # "N/A"
                    THEN <<ParseFloat(data.imdbRating)>> ELSE <<>>,
     imdbVotes |-> IF data.imdbVotes # <<"N/A">>
                   THEN <<StripCommas(data.imdbVotes[1])>> ELSE <<>>,
     boxOffice |-> data.BoxOffice]

\* transformOMDBData throws a TypeError: data.imdbVotes.replace on undefined.
TransformThrows(data) == data.imdbVotes = <<>>

\* The settlement of the promise an async function returns.
Fulfilled(v) == [state |-> "fulfilled", value |-> v]
Rejected == [state |-> "rejected", value |-> <<>>]

\* The try block of searchByTitle / searchByIMDBId from the answer of the
\* request on: this.api.get rejects on a network failure, the sentinel gives
\* null, and the payload is transformed (which may throw).
OmdbTry(data, net) ==
    CASE net = "neterr" -> Rejected
      [] net = "false" -> Fulfilled(<<>>)
      [] net = "ok" -> Fulfilled(<<transformOMDBData(data)>>)
      [] net = "malformed" ->
           IF TransformThrows(MalformedPayload(data)) THEN Rejected
           ELSE Fulfilled(<<transformOMDBData(MalformedPayload(data))>>)

\* A catch that lets the error through.
OmdbCatchRethrow(attempt) == attempt

\* The catch block: whatever was thrown, null is returned.
OmdbCatch(attempt) ==
    IF attempt.state = "rejected" THEN Fulfilled(<<>>) ELSE attempt

\* OMDBApi.searchByTitle, given what the request came back with.
searchByTitle(title, net) == OmdbCatch(OmdbTry(OmdbPayload(title), net))

\* The title the OMDB endpoint keeps under an IMDB id.
TitleOfId(imdbId) == IF imdbId = "tt0001" THEN "Alpha" ELSE "Beta"

\* OMDBApi.searchByIMDBId, given what the request came back with.
searchByIMDBId(imdbId, net) == OmdbCatch(OmdbTry(OmdbPayload(TitleOfId(imdbId)), net))

----------------------------------------------------------------------------
\* ApiService

\* a || b on numbers in tenths: 0 and null are falsy.
OrNum(a, b) == IF a # <<>> /\ a[1] # 0 THEN a[1] ELSE b

\* A test that also takes the OMDB plot on a tie.
PreferOmdbPlotTies(omdbPlot, tmdbPlot) ==
    omdbPlot # "" /\ Len(omdbPlot) >= Len(tmdbPlot)

\* omdbItem.plot && omdbItem.plot.length > tmdbItem.plot.length ('' stands
\* for an empty and for a missing plot: both are falsy).
PreferOmdbPlot(omdbPlot, tmdbPlot) ==
    omdbPlot # "" /\ Len(omdbPlot) > Len(tmdbPlot)

mergeBasicData(tmdbItem, omdbItem) ==
    [id |-> tmdbItem.id,
     title |-> tmdbItem.title,
     type |-> tmdbItem.type,
     year |-> tmdbItem.year,
     rating |-> tmdbItem.rating,
     imdb |-> OrNum(omdbItem.imdbRating, tmdbItem.rating),
     rottenTomatoes |-> IF omdbItem.ratings.rottenTomatoes # <<0>>
                        THEN omdbItem.ratings.rottenTomatoes ELSE <<>>,
     metacritic |-> IF omdbItem.ratings.metacritic # <<0>>
                    THEN omdbItem.ratings.metacritic ELSE <<>>,
     imdbId |-> omdbItem.imdbId,
     rated |-> omdbItem.rated,
     awards |-> omdbItem.awards,
     plot |-> IF PreferOmdbPlot(omdbItem.plot, tmdbItem.plot)
              THEN omdbItem.plot ELSE tmdbItem.plot,
     \* list records carry no cast, director or runtime
     cast |-> omdbItem.actors,
     director |-> IF omdbItem.director # "" THEN <<omdbItem.director>> ELSE <<>>,
     writer |-> omdbItem.writer,
     boxOffice |-> omdbItem.boxOffice,
     runtime |-> IF omdbItem.runtime # "" THEN <<omdbItem.runtime>> ELSE <<>>]

\* On a detail record (which carries cast and director); the fields the
\* list merge has too, and imdbVotes.
mergeDetailedData(tmdbItem, omdbItem) ==
    [id |-> tmdbItem.id,
     title |-> tmdbItem.title,
     type |-> tmdbItem.type,
     year |-> tmdbItem.year,
     rating |-> tmdbItem.rating,
     imdb |-> OrNum(omdbItem.imdbRating, tmdbItem.rating),
     rottenTomatoes |-> IF omdbItem.ratings.rottenTomatoes # <<0>>
                        THEN omdbItem.ratings.rottenTomatoes ELSE <<>>,
     metacritic |-> IF omdbItem.ratings.metacritic # <<0>>
                    THEN omdbItem.ratings.metacritic ELSE <<>>,
     imdbVotes |-> omdbItem.imdbVotes,
     imdbId |-> omdbItem.imdbId,
     rated |-> omdbItem.rated,
     awards |-> omdbItem.awards,
     plot |-> IF PreferOmdbPlot(omdbItem.plot, tmdbItem.plot)
              THEN omdbItem.plot ELSE tmdbItem.plot,
     cast |-> IF Len(tmdbItem.cast) > 0 THEN tmdbItem.cast ELSE omdbItem.actors,
     director |-> IF omdbItem.director # "" THEN <<omdbItem.director>>
                  ELSE <<tmdbItem.director>>,
     writer |-> omdbItem.writer,
     boxOffice |-> omdbItem.boxOffice]

\* How a call of a merge function ends.
Returned(v) == [threw |-> FALSE, value |-> <<v>>]
Threw == [threw |-> TRUE, value |-> <<>>]

\* A call of mergeBasicData / mergeDetailedData with an omdbItem that may be
\* null: the first property read, omdbItem.imdbRating, throws a TypeError on
\* null.
CallMerge(fn, tmdbItem, omdbItem) ==
    IF omdbItem = <<>> THEN Threw
    ELSE IF fn = "mergeBasicData" THEN Returned(mergeBasicData(tmdbItem, omdbItem[1]))
    ELSE Returned(mergeDetailedData(tmdbItem, omdbItem[1]))

\* The callback without its try/catch and its null test: merging with a
\* missing enrichment throws, and the item's promise rejects.
ItemCallbackUnguarded(item, lookup) ==
    IF lookup.state = "rejected" \/ lookup.value = <<>> THEN Rejected
    ELSE Fulfilled(mergeBasicData(item, lookup.value[1]))

\* The async callback of batch.map, from the settlement of searchByTitle on.
ItemCallback(item, lookup) ==
    IF lookup.state = "rejected" THEN Fulfilled(item)
    ELSE IF lookup.value # <<>> THEN Fulfilled(mergeBasicData(item, lookup.value[1]))
    ELSE Fulfilled(item)

\* A slice one element too long.
BatchPositionsWide(items, from, width) ==
    {n \in 1..Len(items) : from < n /\ n <= from + width + 1}

\* tmdbItems.slice(i, i + maxConcurrent), as the positions it covers.
BatchPositions(items, from, width) ==
    {n \in 1..Len(items) : from < n /\ n <= from + width}

\* Promise.all resolving in the order the promises settled in, not in the
\* order of the promises.
PromiseAllByArrival(promises, arrived) ==
    LET mine == SelectSeq(arrived, LAMBDA n : n \in DOMAIN promises)
    IN  [k \in 1..Len(mine) |-> promises[mine[k]][1].value]

\* The value Promise.all(batchPromises) fulfils with: the values in the
\* order of the promises, whatever the order they settled in.
PromiseAllValues(promises, arrived) ==
    LET RECURSIVE Walk(_)
        Walk(n) ==
            IF \A m \in DOMAIN promises : m < n THEN <<>>
            ELSE IF n \in DOMAIN promises THEN <<promises[n][1].value>> \o Walk(n + 1)
            ELSE Walk(n + 1)
    IN  Walk(1)

\* One turn of the for loop from offset `from` with `done` gathered so far:
\* either the loop ends and the call returns, or the next batch's lookups
\* are issued and the call waits on Promise.all.
LoopFrom(items, width, from, done) ==
    IF from < Len(items)
    THEN LET batch == BatchPositions(items, from, width)
         IN  /\ epc' = "await"
             /\ i' = from
             /\ enhancedItems' = done
             /\ turn' = 1 - turn
             /\ batchPromises' = [n \in batch |-> <<>>]
             /\ inFlight' = batch
             /\ issued' = issued \cup batch
             /\ returned' = <<>>
    ELSE /\ epc' = "done"
         /\ i' = from
         /\ enhancedItems' = done
         /\ turn' = 1 - turn
         /\ batchPromises' = << >>
         /\ inFlight' = {}
         /\ issued' = issued
         /\ returned' = <<done>>

\* enhanceWithOMDBData(items, width) is called: an empty list is returned as
\* it is; otherwise the first batch goes out.
Enhance(items, width) ==
    /\ epc = "idle"
    /\ tmdbItems' = items
    /\ maxConcurrent' = width
    /\ outcome' = [n \in 1..Len(items) |-> "none"]
    /\ arrival' = <<>>
    /\ IF Len(items) = 0
       THEN /\ epc' = "done"
            /\ returned' = <<items>>
            /\ UNCHANGED <<i, enhancedItems, turn, batchPromises, inFlight, issued>>
       ELSE LoopFrom(items, width, 0, <<>>)
    /\ UNCHANGED notEnrich

\* The OMDB request of position n comes back; searchByTitle settles and the
\* callback of that item runs to its end.
Respond(n, net) ==
    /\ epc = "await"
    /\ n \in inFlight
    /\ inFlight' = inFlight \ {n}
    /\ batchPromises' = [batchPromises EXCEPT
           ![n] = <<ItemCallback(tmdbItems[n], searchByTitle(tmdbItems[n].title, net))>>]
    /\ arrival' = Append(arrival, n)
    /\ outcome' = [outcome EXCEPT ![n] = net]
    /\ UNCHANGED <<epc, tmdbItems, maxConcurrent, i, enhancedItems, turn, issued, returned>>
    /\ UNCHANGED notEnrich

\* await Promise.all(batchPromises) resumes: it rejects as soon as one promise
\* has rejected, and fulfils once all have; the results are pushed and the
\* loop goes on.
BatchSettled ==
    /\ epc = "await"
    /\ \/ \E n \in DOMAIN batchPromises :
             batchPromises[n] # <<>> /\ batchPromises[n][1].state = "rejected"
       \/ \A n \in DOMAIN batchPromises : batchPromises[n] # <<>>
    /\ IF \E n \in DOMAIN batchPromises :
             batchPromises[n] # <<>> /\ batchPromises[n][1].state = "rejected"
       THEN /\ epc' = "raised"
            /\ UNCHANGED <<i, enhancedItems, turn, batchPromises, inFlight, issued, returned>>
       ELSE LoopFrom(tmdbItems, maxConcurrent, i + maxConcurrent,
                     enhancedItems \o PromiseAllValues(batchPromises, arrival))
    /\ UNCHANGED <<tmdbItems, maxConcurrent, arrival, outcome>>
    /\ UNCHANGED notEnrich

EnrichInit ==
    /\ epc = "idle"
    /\ tmdbItems = <<>>
    /\ maxConcurrent = 0
    /\ i = 0
    /\ enhancedItems = <<>>
    /\ turn = 0
    /\ batchPromises = << >>
    /\ inFlight = {}
    /\ issued = {}
    /\ arrival = <<>>
    /\ outcome = << >>
    /\ returned = <<>>

EnrichNext ==
    \/ \E items \in SeqsUpTo(Catalog, MaxItems), width \in 0..MaxConcurrent :
          Enhance(items, width)
    \/ \E n \in 1..MaxItems, net \in NetOutcomes : Respond(n, net)
    \/ BatchSettled

----------------------------------------------------------------------------
\* ApiCache

DefaultMaxSize == 100
DefaultTtl == 300000

CacheKeys == {"A", "B", "C"}

\* Map operations on the entries kept in iteration order.
MapKeys(m) == {m[n].key : n \in DOMAIN m}
MapHas(m, k) == k \in MapKeys(m)
MapGet(m, k) == LET n == CHOOSE n \in DOMAIN m : m[n].key = k IN m[n]
MapDelete(m, k) == SelectSeq(m, LAMBDA e : e.key # k)
\* Map.set: a key already present keeps its place, a new key goes last.
MapSet(m, k, item) ==
    IF MapHas(m, k)
    THEN [n \in DOMAIN m |->
            IF m[n].key = k THEN [key |-> k, data |-> item.data, expiry |-> item.expiry]
            ELSE m[n]]
    ELSE Append(m, [key |-> k, data |-> item.data, expiry |-> item.expiry])

\* The newest key instead of the oldest.
MapLastKey(m) == IF m = <<>> THEN <<>> ELSE <<m[Len(m)].key>>

\* this.cache.keys().next().value: <<>> (undefined) on an empty Map.
MapFirstKey(m) == IF m = <<>> THEN <<>> ELSE <<m[1].key>>

\* An expiry test that lets an entry live one tick too long.
IsExpiredLate(t, expiry) == t > expiry + 1

\* Date.now() > item.expiry
IsExpired(t, expiry) == t > expiry

\* A capacity test that evicts one insertion too late.
IsFullLate(size, max) == size > max

\* this.cache.size >= this.maxSize
IsFull(size, max) == size >= max

\* The Map after the eviction step of set.
AfterEviction(m, max) ==
    IF IsFull(Len(m), max)
    THEN LET firstKey == MapFirstKey(m)
         IN  IF firstKey = <<>> THEN m ELSE MapDelete(m, firstKey[1])
    ELSE m

\* The key the history says was inserted earliest, among those of m.
EarliestInserted(m) ==
    IF m = <<>> THEN <<>>
    ELSE <<CHOOSE k \in MapKeys(m) : \A o \in MapKeys(m) : insSeq[k] <= insSeq[o]>>

NoOp == [op |-> "none", key |-> "", result |-> <<>>, pre |-> {}, oldest |-> <<>>]

\* apiCache.set(k, data); the data of the n-th set call is n.
CacheSet(k) ==
    /\ setCount < MaxSets
    /\ LET kept == AfterEviction(cache, maxSize)
       IN  /\ cache' = MapSet(kept, k, [data |-> setCount + 1, expiry |-> now + ttl])
           /\ insSeq' = IF MapHas(kept, k) THEN insSeq
                        ELSE [insSeq EXCEPT ![k] = setCount + 1]
    /\ setCount' = setCount + 1
    /\ setAt' = [setAt EXCEPT ![k] = <<now>>]
    /\ lastOp' = [op |-> "set", key |-> k, result |-> <<>>, pre |-> MapKeys(cache),
                  oldest |-> EarliestInserted(cache)]
    /\ UNCHANGED <<maxSize, ttl, now>>
    /\ UNCHANGED notCache

\* apiCache.get(k): null for a missing key and for an expired entry, which
\* is deleted; otherwise the entry's data.
CacheGet(k) ==
    /\ IF ~MapHas(cache, k)
       THEN /\ cache' = cache
            /\ lastOp' = [op |-> "get", key |-> k, result |-> <<>>, pre |-> MapKeys(cache),
                          oldest |-> <<>>]
       ELSE IF IsExpired(now, MapGet(cache, k).expiry)
       THEN /\ cache' = MapDelete(cache, k)
            /\ lastOp' = [op |-> "get", key |-> k, result |-> <<>>, pre |-> MapKeys(cache),
                          oldest |-> <<>>]
       ELSE /\ cache' = cache
            /\ lastOp' = [op |-> "get", key |-> k, result |-> <<MapGet(cache, k).data>>,
                          pre |-> MapKeys(cache), oldest |-> <<>>]
    /\ UNCHANGED <<maxSize, ttl, now, setCount, insSeq, setAt>>
    /\ UNCHANGED notCache

\* apiCache.clear()
CacheClear ==
    /\ cache # <<>>
    /\ cache' = <<>>
    /\ lastOp' = [op |-> "clear", key |-> "", result |-> <<>>, pre |-> MapKeys(cache),
                  oldest |-> <<>>]
    /\ UNCHANGED <<maxSize, ttl, now, setCount, insSeq, setAt>>
    /\ UNCHANGED notCache

\* apiCache.size()
CacheSize == Len(cache)

\* A millisecond passes.
Tick ==
    /\ now < MaxClock
    /\ now' = now + 1
    /\ lastOp' = NoOp
    /\ UNCHANGED <<cache, maxSize, ttl, setCount, insSeq, setAt>>
    /\ UNCHANGED notCache

\* The module's own instance: new ApiCache().
CacheDefault ==
    /\ cache = <<>>
    /\ maxSize = DefaultMaxSize
    /\ ttl = DefaultTtl
    /\ now = 0
    /\ lastOp = NoOp
    /\ setCount = 0
    /\ insSeq = [k \in CacheKeys |-> 0]
    /\ setAt = [k \in CacheKeys |-> <<>>]

\* new ApiCache(maxSize, ttl)
CacheInit ==
    /\ cache = <<>>
    /\ maxSize \in 0..MaxCap
    /\ ttl \in 1..MaxTtl
    /\ now = 0
    /\ lastOp = NoOp
    /\ setCount = 0
    /\ insSeq = [k \in CacheKeys |-> 0]
    /\ setAt = [k \in CacheKeys |-> <<>>]

CacheNext ==
    \/ \E k \in CacheKeys : CacheSet(k)
    \/ \E k \in CacheKeys : CacheGet(k)
    \/ CacheClear
    \/ Tick

----------------------------------------------------------------------------
\* retryApiCall

\* What a failed apiCall() can reject with.
ErrorKinds == {"auth401", "rate429", "network"}

\* The same delay before every retry.
BackoffFlat(delay, n) == delay

\* delay * (i + 1)
Backoff(delay, n) == delay * (n + 1)

\* retryApiCall(apiCall, maxRetries, delay): the loop is entered and apiCall()
\* invoked, or (maxRetries <= 0) the loop is skipped and undefined returned.
RetryCall(maxRetries, delay) ==
    /\ rpc = "idle"
    /\ rMaxRetries' = maxRetries
    /\ rDelay' = delay
    /\ rI' = 0
    /\ IF 0 < maxRetries
       THEN rpc' = "calling" /\ rCalls' = 1
       ELSE rpc' = "returned" /\ rCalls' = 0
    /\ UNCHANGED <<rErrors, rWaits, rThrown>>
    /\ UNCHANGED notRetry

\* The awaited apiCall() fulfils: its value is returned.
AttemptSucceeds ==
    /\ rpc = "calling"
    /\ rpc' = "returned"
    /\ UNCHANGED <<rMaxRetries, rDelay, rI, rCalls, rErrors, rWaits, rThrown>>
    /\ UNCHANGED notRetry

\* The awaited apiCall() rejects: the last attempt rethrows the error, any
\* other starts the wait before the next.
AttemptFails(kind) ==
    /\ rpc = "calling"
    /\ LET err == [kind |-> kind, attempt |-> rCalls]
       IN  /\ rErrors' = Append(rErrors, err)
           /\ IF rI = rMaxRetries - 1
              THEN /\ rpc' = "thrown"
                   /\ rThrown' = <<err>>
                   /\ UNCHANGED rWaits
              ELSE /\ rpc' = "waiting"
                   /\ rWaits' = Append(rWaits, Backoff(rDelay, rI))
                   /\ UNCHANGED rThrown
    /\ UNCHANGED <<rMaxRetries, rDelay, rI, rCalls>>
    /\ UNCHANGED notRetry

\* The timeout fires: i++, and apiCall() is invoked again.
WaitElapsed ==
    /\ rpc = "waiting"
    /\ rI' = rI + 1
    /\ IF rI + 1 < rMaxRetries
       THEN rpc' = "calling" /\ rCalls' = rCalls + 1
       ELSE rpc' = "returned" /\ rCalls' = rCalls
    /\ UNCHANGED <<rMaxRetries, rDelay, rErrors, rWaits, rThrown>>
    /\ UNCHANGED notRetry

RetryInit ==
    /\ rpc = "idle"
    /\ rMaxRetries = 0
    /\ rDelay = 0
    /\ rI = 0
    /\ rCalls = 0
    /\ rErrors = <<>>
    /\ rWaits = <<>>
    /\ rThrown = <<>>

RetryNext ==
    \/ \E maxRetries \in 0..MaxRetries, delay \in 1..MaxDelay : RetryCall(maxRetries, delay)
    \/ AttemptSucceeds
    \/ \E kind \in ErrorKinds : AttemptFails(kind)
    \/ WaitElapsed

----------------------------------------------------------------------------
\* The clients' requests.  Neither client reads or writes apiCache: every
\* call of an operation puts its request on the wire.

RequestKeys == {"omdb:t=Alpha", "omdb:t=Beta", "omdb:i=tt0001", "omdb:i=tt0002",
                "tmdb:trending:1", "tmdb:trending:2"}
OmdbKey(title) == IF title = "Alpha" THEN "omdb:t=Alpha" ELSE "omdb:t=Beta"
OmdbIdKey(imdbId) == IF imdbId = "tt0001" THEN "omdb:i=tt0001" ELSE "omdb:i=tt0002"
TmdbKey(page) == IF page = 1 THEN "tmdb:trending:1" ELSE "tmdb:trending:2"

\* A call of OMDBApi.searchByTitle(title, ...): this.api.get('/') is sent
\* and answered, and the call settles.
OmdbSearchByTitle(title, net) ==
    /\ requests[OmdbKey(title)] < MaxRequests
    /\ requests' = [requests EXCEPT ![OmdbKey(title)] = @ + 1]
    /\ netCalls' = [netCalls EXCEPT ![OmdbKey(title)] = @ + 1]
    /\ lastLookup' = <<[op |-> "searchByTitle", net |-> net,
                        settled |-> searchByTitle(title, net)]>>
    /\ UNCHANGED notClient

\* A call of OMDBApi.searchByIMDBId(imdbId), likewise.
OmdbSearchByIMDBId(imdbId, net) ==
    /\ requests[OmdbIdKey(imdbId)] < MaxRequests
    /\ requests' = [requests EXCEPT ![OmdbIdKey(imdbId)] = @ + 1]
    /\ netCalls' = [netCalls EXCEPT ![OmdbIdKey(imdbId)] = @ + 1]
    /\ lastLookup' = <<[op |-> "searchByIMDBId", net |-> net,
                        settled |-> searchByIMDBId(imdbId, net)]>>
    /\ UNCHANGED notClient

\* TMDBApi.getTrending('day', page) up to its await: this.api.get(TRENDING_ALL).
TmdbGetTrending(page) ==
    /\ requests[TmdbKey(page)] < MaxRequests
    /\ requests' = [requests EXCEPT ![TmdbKey(page)] = @ + 1]
    /\ netCalls' = [netCalls EXCEPT ![TmdbKey(page)] = @ + 1]
    /\ UNCHANGED lastLookup
    /\ UNCHANGED notClient

ClientInit ==
    /\ requests = [k \in RequestKeys |-> 0]
    /\ netCalls = [k \in RequestKeys |-> 0]
    /\ lastLookup = <<>>

ClientNext ==
    \/ \E title \in {"Alpha", "Beta"}, net \in NetOutcomes : OmdbSearchByTitle(title, net)
    \/ \E imdbId \in {"tt0001", "tt0002"}, net \in NetOutcomes :
          OmdbSearchByIMDBId(imdbId, net)
    \/ \E page \in {1, 2} : TmdbGetTrending(page)

----------------------------------------------------------------------------
\* EntertainmentPlatform: the search effect.

Queries == {"", " ", "a", "b"}

\* A trim that leaves whitespace in place.
TrimNone(q) == q

\* query.trim()
Trim(q) == IF q = " " THEN "" ELSE q

\* The values setSearchResults is given.  `shape` tells the array [] from the
\* object searchContent resolves with; <<>> is undefined.
EmptyArray ==
    [shape |-> "array", results |-> <<>>, page |-> <<>>, totalPages |-> <<>>,
     totalResults |-> <<>>]

\* searchContent on a blank query.
BlankResults ==
    [shape |-> "object", results |-> << <<>> >>, page |-> <<1>>, totalPages |-> <<0>>,
     totalResults |-> <<0>>]

\* searchContent once searchMulti has resolved: searchMulti resolves with the
\* array transformSearchData built, whose results, page, totalPages and
\* totalResults properties are undefined, and enhanceWithOMDBData returns a
\* non-array argument as it is.
SearchContentValue ==
    [shape |-> "object", results |-> <<>>, page |-> <<>>, totalPages |-> <<>>,
     totalResults |-> <<>>]

\* handleApiError on the Error searchMulti rethrows (no response, no request).
SearchErrorMessage == "Failed to search content"

\* setSearchQuery(q) with a new value: the effect's cleanup clears the pending
\* timeout and the effect sets a new one.
TypeQuery(q) ==
    /\ typed < MaxTyped
    /\ q # searchQuery
    /\ searchQuery' = q
    /\ searchTimeout' = <<q>>
    /\ typed' = typed + 1
    /\ UNCHANGED <<searchResults, isLoading, error, searching, started, latestId, latestWrote,
                   initializing>>
    /\ UNCHANGED notApp

\* The timeout's callback runs, up to its await (a blank query resolves
\* without a request, and the callback ends in the same task).
TimeoutFires ==
    /\ searchTimeout # <<>>
    /\ LET q == searchTimeout[1]
       IN  /\ searchTimeout' = <<>>
           /\ started' = started + 1
           /\ latestId' = IF Trim(q) = "" THEN 0 ELSE started + 1
           /\ IF Len(q) = 0
              THEN /\ searchResults' = EmptyArray
                   /\ latestWrote' = <<EmptyArray>>
                   /\ UNCHANGED <<isLoading, searching>>
              ELSE IF Trim(q) = ""
              THEN /\ searchResults' = BlankResults
                   /\ latestWrote' = <<BlankResults>>
                   /\ isLoading' = FALSE
                   /\ UNCHANGED searching
              ELSE /\ isLoading' = TRUE
                   /\ searching' = searching \cup {[id |-> started + 1, query |-> q]}
                   /\ latestWrote' = <<>>
                   /\ UNCHANGED searchResults
    /\ UNCHANGED <<searchQuery, error, typed, initializing>>
    /\ UNCHANGED notApp

\* searchContent of search r settles and the callback runs to its end.
SearchSettles(r, ok) ==
    /\ r \in searching
    /\ searching' = searching \ {r}
    /\ LET wrote == IF ok THEN SearchContentValue ELSE EmptyArray
       IN  /\ searchResults' = wrote
           /\ latestWrote' = IF r.id = latestId THEN <<wrote>> ELSE latestWrote
    /\ error' = IF ok THEN error ELSE <<SearchErrorMessage>>
    /\ isLoading' = FALSE
    /\ UNCHANGED <<searchQuery, searchTimeout, typed, started, latestId, initializing>>
    /\ UNCHANGED notApp

\* handleApiError on the Error getTrendingContent rethrows.
InitializeErrorMessage == "Failed to fetch trending content"

\* Promise.all of getTrendingContent and getGenres settles and initializeApp
\* runs to its end, through catch and finally.
InitializeSettles(ok) ==
    /\ initializing
    /\ initializing' = FALSE
    /\ error' = IF ok THEN error ELSE <<InitializeErrorMessage>>
    /\ isLoading' = FALSE
    /\ UNCHANGED <<searchQuery, searchResults, searchTimeout, searching, typed, started,
                   latestId, latestWrote>>
    /\ UNCHANGED notApp

\* After the first render, with TMDB configured: initializeApp has set
\* isLoading and awaits its two requests, and the search effect has set its
\* timeout for ''.
AppInit ==
    /\ searchQuery = ""
    /\ searchResults = EmptyArray
    /\ isLoading = TRUE
    /\ initializing = TRUE
    /\ error = <<>>
    /\ searchTimeout = <<"">>
    /\ searching = {}
    /\ typed = 0
    /\ started = 0
    /\ latestId = 0
    /\ latestWrote = <<>>

AppNext ==
    \/ \E q \in Queries : TypeQuery(q)
    \/ TimeoutFires
    \/ \E r \in [id : 1..(MaxTyped + 1), query : Queries], ok \in BOOLEAN : SearchSettles(r, ok)
    \/ \E ok \in BOOLEAN : InitializeSettles(ok)

----------------------------------------------------------------------------
\* One page request: a listing operation of ApiService (or searchMulti of the
\* TMDB client called directly), the TMDB endpoint's answer, and the caller's
\* catch (initializeApp, the search effect).

\* Items of response.data.results as the TMDB endpoint sends them.
RawAlpha == [id |-> 1, media_type |-> "movie", title |-> <<"Alpha">>, name |-> <<>>,
             release_date |-> "2001-05-01", first_air_date |-> "",
             overview |-> "short", vote_average |-> 70]
RawBeta == [id |-> 2, media_type |-> "tv", title |-> <<>>, name |-> <<"Beta">>,
            release_date |-> "", first_air_date |-> "2010-09-12",
            overview |-> "a considerably longer plot description", vote_average |-> 55]
RawPerson == [id |-> 3, media_type |-> "person", title |-> <<>>, name |-> <<"Cy Poe">>,
              release_date |-> "", first_air_date |-> "",
              overview |-> "", vote_average |-> 0]

\* new Date(s).getFullYear() on the dates of the payloads.
YearOf(date) ==
    CASE date = "2001-05-01" -> 2001
      [] date = "2010-09-12" -> 2010

\* The object transformTrendingData / transformSearchData build for one item
\* (the fields the engine and the merge read).
transformItem(item) ==
    [id |-> item.id,
     title |-> IF item.title # <<>> THEN item.title[1] ELSE item.name[1],
     type |-> IF item.media_type = "movie" THEN "movie" ELSE "tv",
     year |-> YearOf(IF item.release_date # "" THEN item.release_date
                     ELSE item.first_air_date),
     plot |-> IF item.overview # "" THEN item.overview ELSE "No plot available",
     rating |-> item.vote_average]

transformTrendingData(results) ==
    [k \in 1..Len(results) |-> transformItem(results[k])]

transformSearchData(results) ==
    LET kept == SelectSeq(results, LAMBDA item : item.media_type \in {"movie", "tv"})
    IN  [k \in 1..Len(kept) |-> transformItem(kept[k])]

\* The listing payloads of the model: response.data of a trending request
\* (dated titles only) and of a search request.
TrendingPayloads(page) ==
    [results : SeqsUpTo({RawAlpha, RawBeta}, MaxPageItems), page : {page},
     total_pages : {2}, total_results : {3, 4}]

SearchPayloads(page) ==
    [results : SeqsUpTo({RawAlpha, RawBeta, RawPerson}, MaxPageItems), page : {page},
     total_pages : {2}, total_results : {3, 4}]

\* A JavaScript array as a value whose properties may be read: its results,
\* page, totalPages and totalResults properties are undefined.
ArrayOf(elements) ==
    [shape |-> "array", elements |-> elements, results |-> <<>>, page |-> <<>>,
     totalPages |-> <<>>, totalResults |-> <<>>]

\* The object literal the listing operations of ApiService return.
ListingOf(enhancedResults, tmdbResponse) ==
    [shape |-> "object", results |-> enhancedResults, page |-> tmdbResponse.page,
     totalPages |-> tmdbResponse.totalPages,
     totalResults |-> tmdbResponse.totalResults]

\* Errors: the one axios rejects with, and new Error(message).
AxiosError(kind) ==
    CASE kind = "auth401" ->
           [response |-> <<401>>, request |-> TRUE,
            message |-> "Request failed with status code 401"]
      [] kind = "rate429" ->
           [response |-> <<429>>, request |-> TRUE,
            message |-> "Request failed with status code 429"]
      [] kind = "network" ->
           [response |-> <<>>, request |-> TRUE, message |-> "Network Error"]

NewError(message) == [response |-> <<>>, request |-> FALSE, message |-> message]

\* A message that does not tell the operations apart.
FailMessageGeneric(op) == "Request failed"

\* The message of the Error the catch of the TMDB operation behind op throws.
FailMessage(op) ==
    IF op = "getTrendingContent" THEN "Failed to fetch trending content"
    ELSE "Failed to search content"

\* The catch blocks on the way up: the TMDB operation throws a new Error, and
\* ApiService rethrows what it caught.
TmdbCatch(op, axiosError) == NewError(FailMessage(op))

InvalidKeyMessage == "Invalid API key. Please check your configuration."

handleApiError(e) ==
    IF e.response # <<>>
    THEN CASE e.response[1] = 401 -> InvalidKeyMessage
           [] e.response[1] = 404 -> "Content not found."
           [] e.response[1] = 429 -> "Too many requests. Please try again later."
           [] e.response[1] = 500 -> "Server error. Please try again later."
           [] OTHER -> "Error <status>: <message>"
    ELSE IF e.request
    THEN "Network error. Please check your internet connection."
    ELSE IF e.message # "" THEN e.message ELSE "An unexpected error occurred."


PageOps == {"getTrendingContent", "searchContent", "searchMulti"}
BlankQueries == {"", " "}

\* enhanceWithOMDBData(arg) under the given answers of the OMDB endpoint, as
\* the value it resolves with: an argument that is not an array (<<>>) or is
\* empty comes back as it is; otherwise one record per item, in order.
EnhanceValue(arg, outcomes) ==
    IF arg = <<>> \/ arg[1] = <<>> THEN arg
    ELSE << [k \in 1..Len(arg[1]) |->
              ItemCallback(arg[1][k],
                           searchByTitle(arg[1][k].title, outcomes[k])).value] >>

\* The OMDB requests that call sends.
EnhanceLookups(arg) == IF arg = <<>> THEN 0 ELSE Len(arg[1])

\* The operation is called and runs up to its first await on the network.
\* searchContent returns the empty listing for a blank query, and searchMulti
\* the empty array, before any request.
PageRequest(op, query, page) ==
    /\ ppc = "idle"
    /\ op = "getTrendingContent" => query = ""
    /\ pOp' = op
    /\ pQuery' = query
    /\ pPage' = page
    /\ IF op = "searchContent" /\ Trim(query) = ""
       THEN /\ ppc' = "done"
            /\ pResult' = <<BlankResults>>
            /\ UNCHANGED pTmdbCalls
       ELSE IF op = "searchMulti" /\ Trim(query) = ""
       THEN /\ ppc' = "done"
            /\ pResult' = <<ArrayOf(<<>>)>>
            /\ UNCHANGED pTmdbCalls
       ELSE /\ ppc' = "primary"
            /\ pTmdbCalls' = pTmdbCalls + 1
            /\ UNCHANGED pResult
    /\ UNCHANGED <<pOmdbCalls, pPrimary, pThrown, pShown>>
    /\ UNCHANGED notPage

\* The TMDB endpoint answers with a page: the TMDB operation resolves with
\* the array its transform built; ApiService reads the array's results, page,
\* totalPages and totalResults properties and passes the first to
\* enhanceWithOMDBData.
PrimaryResponds(data, outcomes) ==
    /\ ppc = "primary"
    /\ data.page = pPage
    /\ pOp = "getTrendingContent" => data \in TrendingPayloads(pPage)
    /\ LET tmdbResponse == IF pOp = "getTrendingContent"
                           THEN ArrayOf(transformTrendingData(data.results))
                           ELSE ArrayOf(transformSearchData(data.results))
       IN  /\ pResult' = IF pOp = "searchMulti" THEN <<tmdbResponse>>
                         ELSE <<ListingOf(EnhanceValue(tmdbResponse.results, outcomes),
                                          tmdbResponse)>>
           /\ pOmdbCalls' = IF pOp = "searchMulti" THEN pOmdbCalls
                            ELSE pOmdbCalls + EnhanceLookups(tmdbResponse.results)
    /\ pPrimary' = <<[kind |-> "ok", data |-> data]>>
    /\ ppc' = "done"
    /\ UNCHANGED <<pOp, pQuery, pPage, pTmdbCalls, pThrown, pShown>>
    /\ UNCHANGED notPage

\* The TMDB request fails: the TMDB operation's catch throws, ApiService
\* rethrows, and the caller's catch sets the error state.
PrimaryFails(kind) ==
    /\ ppc = "primary"
    /\ LET thrown == TmdbCatch(pOp, AxiosError(kind))
       IN  /\ pThrown' = <<thrown>>
           /\ pShown' = IF pOp = "searchMulti" THEN pShown
                        ELSE <<handleApiError(thrown)>>
    /\ pPrimary' = <<[kind |-> kind]>>
    /\ ppc' = "thrown"
    /\ UNCHANGED <<pOp, pQuery, pPage, pTmdbCalls, pOmdbCalls, pResult>>
    /\ UNCHANGED notPage

PageInit ==
    /\ ppc = "idle"
    /\ pOp = "getTrendingContent"
    /\ pQuery = ""
    /\ pPage = 1
    /\ pTmdbCalls = 0
    /\ pOmdbCalls = 0
    /\ pPrimary = <<>>
    /\ pResult = <<>>
    /\ pThrown = <<>>
    /\ pShown = <<>>

PageNext ==
    \/ \E op \in PageOps, query \in Queries, page \in 1..2 : PageRequest(op, query, page)
    \/ \E data \in SearchPayloads(1) \cup SearchPayloads(2),
          outcomes \in [1..MaxPageItems -> NetOutcomes] : PrimaryResponds(data, outcomes)
    \/ \E kind \in ErrorKinds : PrimaryFails(kind)

----------------------------------------------------------------------------
\* One call of a merge function on arguments of the model.

MergeFns == {"mergeBasicData", "mergeDetailedData"}

TmdbPlots == {"short", "No plot available", "a considerably longer plot description"}
OmdbPlots == {"", "N/A", "brief", "short", "a considerably longer plot description"}
OmdbRatings == {"N/A", "0.0", "8.1"}

\* List records of the TMDB client, and detail records (transformMovieDetails).
ListRecords == {[Movie1 EXCEPT !.plot = p, !.rating = r] : p \in TmdbPlots, r \in {0, 70}}

DetailOf(item) ==
    [id |-> item.id, title |-> item.title, type |-> item.type, year |-> item.year,
     plot |-> item.plot, rating |-> item.rating,
     cast |-> IF item.rating = 0 THEN <<>> ELSE <<"Fay Orr">>,
     director |-> "Unknown"]

\* The records transformOMDBData builds, and null.
OmdbRecords ==
    {transformOMDBData([OmdbPayload("Alpha") EXCEPT !.Plot = p, !.imdbRating = r]) :
        p \in OmdbPlots, r \in OmdbRatings}

OmdbArguments == {<<>>} \cup {<<e>> : e \in OmdbRecords}

Merge(fn, item, omdbItem) ==
    /\ mpc = "idle"
    /\ mpc' = "done"
    /\ mFn' = fn
    /\ mTmdb' = IF fn = "mergeBasicData" THEN item ELSE DetailOf(item)
    /\ mOmdb' = omdbItem
    /\ mOut' = CallMerge(fn, IF fn = "mergeBasicData" THEN item ELSE DetailOf(item),
                         omdbItem)
    /\ UNCHANGED notMerge

MergeInit ==
    /\ mpc = "idle"
    /\ mFn = "mergeBasicData"
    /\ mTmdb = Movie1
    /\ mOmdb = <<>>
    /\ mOut = [threw |-> FALSE, value |-> <<>>]

MergeNext ==
    \E fn \in MergeFns, item \in ListRecords, omdbItem \in OmdbArguments :
        Merge(fn, item, omdbItem)

----------------------------------------------------------------------------
\* ApiService.getGenres

\* The objects of response.data.genres: id 28 goes under two names.
Genres == {[id |-> 28, name |-> "Action"], [id |-> 28, name |-> "Adventure"],
           [id |-> 18, name |-> "Drama"]}
GenreLists == SeqsUpTo(Genres, MaxGenres)

\* A reducer under which a later genre of the same id takes the place of the
\* earlier one.
KeepLast(acc, genre) ==
    IF \E k \in DOMAIN acc : acc[k].id = genre.id
    THEN [k \in DOMAIN acc |-> IF acc[k].id = genre.id THEN genre ELSE acc[k]]
    ELSE Append(acc, genre)

\* The reducer: if (!acc.find(g => g.id === genre.id)) acc.push(genre).
KeepFirst(acc, genre) ==
    IF \E k \in DOMAIN acc : acc[k].id = genre.id THEN acc ELSE Append(acc, genre)

RECURSIVE Reduce(_, _)
\* allGenres.reduce(reducer, acc)
Reduce(allGenres, acc) ==
    IF allGenres = <<>> THEN acc
    ELSE Reduce(Tail(allGenres), KeepFirst(acc, Head(allGenres)))

\* A catch that caches what the request that did resolve brought.
CacheAfterThrowPartial(genreMap, partial) == <<Reduce(partial, <<>>)>>

\* this.genreCache after the catch block: it logs and rethrows, and writes
\* nothing.
CacheAfterThrow(genreMap, partial) == genreMap

\* getGenres is called and runs to its await, or to its return: the cached
\* list is returned if there is one, otherwise both genre requests are sent.
GetGenres ==
    /\ genreCache = <<>> => (gPending < MaxPending /\ gFetches < MaxFetches)
    /\ IF genreCache # <<>>
       THEN /\ gReturned' = genreCache
            /\ gpc' = "returned"
            /\ gLast' = [op |-> "call", cached |-> TRUE, fetched |-> FALSE]
            /\ UNCHANGED <<gPending, gFetches>>
       ELSE /\ gPending' = gPending + 1
            /\ gFetches' = gFetches + 1
            /\ gLast' = [op |-> "call", cached |-> FALSE, fetched |-> TRUE]
            /\ UNCHANGED <<gpc, gReturned>>
    /\ UNCHANGED <<genreCache, gMovie, gTv, gFirst>>
    /\ UNCHANGED notGenre

\* Both requests of one waiting call resolve: the lists are concatenated,
\* reduced, cached under 'all' and returned.
GenresRespond(movieGenres, tvGenres) ==
    /\ gPending > 0
    /\ gPending' = gPending - 1
    /\ LET uniqueGenres == Reduce(movieGenres \o tvGenres, <<>>)
       IN  /\ genreCache' = <<uniqueGenres>>
           /\ gReturned' = <<uniqueGenres>>
           /\ gFirst' = IF gFirst = <<>> THEN <<uniqueGenres>> ELSE gFirst
    /\ gMovie' = movieGenres
    /\ gTv' = tvGenres
    /\ gpc' = "returned"
    /\ gLast' = [op |-> "respond", cached |-> genreCache # <<>>, fetched |-> FALSE]
    /\ UNCHANGED gFetches
    /\ UNCHANGED notGenre

\* One of the requests of a waiting call fails (the other may have brought
\* `partial`): Promise.all rejects, and getGenres logs and rethrows.
GenresFail(partial) ==
    /\ gPending > 0
    /\ gPending' = gPending - 1
    /\ gpc' = "thrown"
    /\ genreCache' = CacheAfterThrow(genreCache, partial)
    /\ gLast' = [op |-> "fail", cached |-> genreCache # <<>>, fetched |-> FALSE]
    /\ UNCHANGED <<gFetches, gFirst, gMovie, gTv, gReturned>>
    /\ UNCHANGED notGenre

GenreInit ==
    /\ gpc = "idle"
    /\ gPending = 0
    /\ gFetches = 0
    /\ gFirst = <<>>
    /\ gLast = [op |-> "none", cached |-> FALSE, fetched |-> FALSE]
    /\ genreCache = <<>>
    /\ gMovie = <<>>
    /\ gTv = <<>>
    /\ gReturned = <<>>

GenreNext ==
    \/ GetGenres
    \/ \E movieGenres \in GenreLists, tvGenres \in GenreLists :
          GenresRespond(movieGenres, tvGenres)
    \/ \E partial \in GenreLists : GenresFail(partial)

----------------------------------------------------------------------------
\* The pagination helpers of utils/apiHelpers.js: pure functions of three
\* numbers.  The Pagination component calls generatePageNumbers and
\* getItemsRange with whatever page state it is given.

MaxTotalPages == 6
MaxVisible == 6
MaxPerPage == 3
MaxTotalItems == 7

\* Calls with page counts of the size the application meets (a hundred pages,
\* five visible, twenty items to a page).
PageNumberExamples == {<<50, 100, 5>>, <<1, 100, 5>>, <<3, 3, 5>>}
ItemsRangeExamples == {<<3, 20, 45>>}

\* The sequence <<from, from + 1, ..., to>>: the loop that pushes i.
PagesFromTo(from, to) == [k \in 1..Max(0, to - from + 1) |-> from + k - 1]

\* generatePageNumbers without the adjustment near the end.
AdjustStartNone(start, end, maxVisible) == start

\* if (end - start + 1 < maxVisible) start = Math.max(1, end - maxVisible + 1)
AdjustStart(start, end, maxVisible) ==
    IF end - start + 1 < maxVisible THEN Max(1, end - maxVisible + 1) ELSE start

generatePageNumbers(currentPage, totalPages, maxVisible) ==
    LET half == maxVisible \div 2
        start == Max(1, currentPage - half)
        end == Min(totalPages, start + maxVisible - 1)
    IN  PagesFromTo(AdjustStart(start, end, maxVisible), end)

\* The end of the range without the cap at totalItems.
RangeEndUncapped(currentPage, itemsPerPage, totalItems) == currentPage * itemsPerPage

\* Math.min(currentPage * itemsPerPage, totalItems)
RangeEnd(currentPage, itemsPerPage, totalItems) ==
    Min(currentPage * itemsPerPage, totalItems)

getItemsRange(currentPage, itemsPerPage, totalItems) ==
    [start |-> (currentPage - 1) * itemsPerPage + 1,
     end |-> RangeEnd(currentPage, itemsPerPage, totalItems)]

\* parseInt(n) || fallback, for a number n that is an integer: parseInt is the
\* identity on it and 0 is falsy.
ParseIntOr(n, fallback) == IF n = 0 THEN fallback ELSE n

\* The flags are computed from the arguments, the reported numbers from
\* their parsed values.
createPaginationInfo(currentPage, totalPages, totalResults) ==
    [currentPage |-> ParseIntOr(currentPage, 1),
     totalPages |-> ParseIntOr(totalPages, 1),
     totalResults |-> ParseIntOr(totalResults, 0),
     hasNextPage |-> currentPage < totalPages,
     hasPrevPage |-> currentPage > 1,
     isFirstPage |-> currentPage = 1,
     isLastPage |-> currentPage = totalPages]

NoRange == [start |-> 0, end |-> 0]
NoInfo == createPaginationInfo(1, 1, 0)

CallGeneratePageNumbers(currentPage, totalPages, maxVisible) ==
    /\ nOp' = "generatePageNumbers"
    /\ nArgs' = <<currentPage, totalPages, maxVisible>>
    /\ nPages' = generatePageNumbers(currentPage, totalPages, maxVisible)
    /\ nRange' = NoRange
    /\ nInfo' = NoInfo
    /\ UNCHANGED notNav

CallGetItemsRange(currentPage, itemsPerPage, totalItems) ==
    /\ nOp' = "getItemsRange"
    /\ nArgs' = <<currentPage, itemsPerPage, totalItems>>
    /\ nRange' = getItemsRange(currentPage, itemsPerPage, totalItems)
    /\ nPages' = <<>>
    /\ nInfo' = NoInfo
    /\ UNCHANGED notNav

CallCreatePaginationInfo(currentPage, totalPages, totalResults) ==
    /\ nOp' = "createPaginationInfo"
    /\ nArgs' = <<currentPage, totalPages, totalResults>>
    /\ nInfo' = createPaginationInfo(currentPage, totalPages, totalResults)
    /\ nPages' = <<>>
    /\ nRange' = NoRange
    /\ UNCHANGED notNav

NavInit ==
    /\ nOp = "none"
    /\ nArgs = <<1, 1, 1>>
    /\ nPages = <<>>
    /\ nRange = NoRange
    /\ nInfo = NoInfo

NavNext ==
    \/ \E currentPage \in 0..MaxTotalPages + 1, totalPages \in 0..MaxTotalPages,
          maxVisible \in 1..MaxVisible :
          CallGeneratePageNumbers(currentPage, totalPages, maxVisible)
    \/ \E args \in PageNumberExamples :
          CallGeneratePageNumbers(args[1], args[2], args[3])
    \/ \E currentPage \in 0..MaxTotalPages, itemsPerPage \in 1..MaxPerPage,
          totalItems \in 0..MaxTotalItems :
          CallGetItemsRange(currentPage, itemsPerPage, totalItems)
    \/ \E args \in ItemsRangeExamples : CallGetItemsRange(args[1], args[2], args[3])
    \/ \E currentPage \in 0..MaxTotalPages, totalPages \in 0..MaxTotalPages,
          totalResults \in 0..MaxTotalItems :
          CallCreatePaginationInfo(currentPage, totalPages, totalResults)

----------------------------------------------------------------------------
\* Debouncing, against a clock: the search effect of EntertainmentPlatform
\* (a timeout of 300 ms that the effect's cleanup clears when searchQuery
\* changes) and the debounce helper of utils/apiHelpers.js.  A timeout runs
\* when its delay has passed: time does not move beyond a pending timeout.

SearchWait == 300
MaxTime == 600
MaxChanges == 3
MaxCalls == 2

TimeSteps == {100, 200, 300}
TimedQueries == {"", "a", "b"}
FuncArgs == {"x", "y"}

\* The times a timeout can be due at.
DueTimes == {k * 100 : k \in 0..((MaxTime + SearchWait) \div 100)}

\* An effect without a cleanup.
EffectCleanupNone(timers) == timers

\* return () => clearTimeout(searchTimeout)
EffectCleanup(timers) == {}

\* setSearchQuery(q) with a new value and the re-render: the cleanup of the
\* previous effect, then the effect sets its timeout.
ChangeQuery(q) ==
    /\ dChanges < MaxChanges
    /\ q # dQuery
    /\ dQuery' = q
    /\ dTimers' = EffectCleanup(dTimers) \cup {[due |-> dNow + SearchWait, value |-> q]}
    /\ dChangedAt' = dNow
    /\ dChanges' = dChanges + 1
    /\ IF dTimers = {}
       THEN dBurst' = 1 /\ dRuns' = <<>> /\ dIssued' = <<>>
       ELSE dBurst' = dBurst + 1 /\ UNCHANGED <<dRuns, dIssued>>
    /\ UNCHANGED <<dNow, hWait, hTimers, hArgs, hCalledAt, hCalls, hInvoked>>
    /\ UNCHANGED notDebounce

\* The callback of timeout t runs, up to its await: searchContent is called
\* when the query the callback closed over is not empty.
SearchTimeout(t) ==
    /\ t \in dTimers
    /\ t.due <= dNow
    /\ dTimers' = dTimers \ {t}
    /\ dRuns' = Append(dRuns, [at |-> dNow, value |-> t.value, current |-> dQuery,
                               since |-> dChangedAt])
    /\ dIssued' = IF Len(t.value) > 0
                  THEN Append(dIssued, [at |-> dNow, value |-> t.value])
                  ELSE dIssued
    /\ UNCHANGED <<dNow, dQuery, dChangedAt, dChanges, dBurst, hWait, hTimers, hArgs,
                   hCalledAt, hCalls, hInvoked>>
    /\ UNCHANGED notDebounce

\* debounce(func, wait)
Debounce(wait) ==
    /\ hWait = <<>>
    /\ hWait' = <<wait>>
    /\ UNCHANGED <<dNow, dQuery, dTimers, dChangedAt, dChanges, dBurst, dRuns, dIssued,
                   hTimers, hArgs, hCalledAt, hCalls, hInvoked>>
    /\ UNCHANGED notDebounce

\* clearTimeout(timeout): `timeout` is the timeout set last, the only one that
\* can be pending.
ClearTimeout(timers) == {}

\* executedFunction(args)
ExecutedFunction(args) ==
    /\ hWait # <<>>
    /\ hCalls < MaxCalls
    /\ hTimers' = ClearTimeout(hTimers) \cup {[due |-> dNow + hWait[1], args |-> args]}
    /\ hArgs' = args
    /\ hCalledAt' = dNow
    /\ hCalls' = hCalls + 1
    /\ hInvoked' = IF hTimers = {} THEN <<>> ELSE hInvoked
    /\ UNCHANGED <<dNow, dQuery, dTimers, dChangedAt, dChanges, dBurst, dRuns, dIssued,
                   hWait>>
    /\ UNCHANGED notDebounce

\* later()
Later(t) ==
    /\ t \in hTimers
    /\ t.due <= dNow
    /\ hTimers' = ClearTimeout(hTimers \ {t})
    /\ hInvoked' = Append(hInvoked, [at |-> dNow, args |-> t.args])
    /\ UNCHANGED <<dNow, dQuery, dTimers, dChangedAt, dChanges, dBurst, dRuns, dIssued,
                   hWait, hArgs, hCalledAt, hCalls>>
    /\ UNCHANGED notDebounce

\* Time passes, up to the next pending timeout.
TimePasses(d) ==
    /\ dNow + d <= MaxTime
    /\ \A t \in dTimers \cup hTimers : dNow + d <= t.due
    /\ dNow' = dNow + d
    /\ UNCHANGED <<dQuery, dTimers, dChangedAt, dChanges, dBurst, dRuns, dIssued, hWait,
                   hTimers, hArgs, hCalledAt, hCalls, hInvoked>>
    /\ UNCHANGED notDebounce

\* After the first render: the effect has set its timeout for ''.
DebounceInit ==
    /\ dNow = 0
    /\ dQuery = ""
    /\ dTimers = {[due |-> SearchWait, value |-> ""]}
    /\ dChangedAt = 0
    /\ dChanges = 0
    /\ dBurst = 0
    /\ dRuns = <<>>
    /\ dIssued = <<>>
    /\ hWait = <<>>
    /\ hTimers = {}
    /\ hArgs = "x"
    /\ hCalledAt = 0
    /\ hCalls = 0
    /\ hInvoked = <<>>

DebounceNext ==
    \/ \E q \in TimedQueries : ChangeQuery(q)
    \/ \E t \in [due : DueTimes, value : TimedQueries] : SearchTimeout(t)
    \/ \E wait \in TimeSteps : Debounce(wait)
    \/ \E args \in FuncArgs : ExecutedFunction(args)
    \/ \E t \in [due : DueTimes, args : FuncArgs] : Later(t)
    \/ \E d \in TimeSteps : TimePasses(d)

----------------------------------------------------------------------------
\* EntertainmentPlatform: the watchlist and the watched list, and the buttons
\* of ContentCard, DetailModal and the watchlist tab that change them.

MaxListIds == 4

ListItems == [id : 1..MaxListIds]

\* list.find(w => w.id === id), as a truth value
Find(list, id) == \E n \in 1..Len(list) : list[n].id = id

\* A removal that removes nothing.
FilterNone(list, id) == list

\* list.filter(item => item.id !== id)
Filter(list, id) == SelectSeq(list, LAMBDA item : item.id # id)

\* addToWatchlist(item): the value watchlist is set to.
addToWatchlist(item) ==
    IF ~Find(watchlist, item.id) THEN Append(watchlist, item) ELSE watchlist

\* removeFromWatchlist(id): the value watchlist is set to.
removeFromWatchlist(id) == Filter(watchlist, id)

\* The add button of a card or of the modal, shown for an item in neither list.
ClickAdd(item) ==
    /\ ~Find(watchlist, item.id) /\ ~Find(watchedList, item.id)
    /\ watchlist' = addToWatchlist(item)
    /\ wLast' = [op |-> "addToWatchlist", id |-> item.id, listed |-> FALSE]
    /\ UNCHANGED watchedList
    /\ UNCHANGED notList

\* The remove button of the watchlist tab, shown for each item of watchlist.
ClickRemove(id) ==
    /\ Find(watchlist, id)
    /\ watchlist' = removeFromWatchlist(id)
    /\ wLast' = [op |-> "removeFromWatchlist", id |-> id, listed |-> TRUE]
    /\ UNCHANGED watchedList
    /\ UNCHANGED notList

\* The mark-as-watched button of a card or of the modal, shown for an item
\* of watchlist that is not in watchedList: markAsWatched(item).
ClickMarkAsWatched(item) ==
    /\ Find(watchlist, item.id) /\ ~Find(watchedList, item.id)
    /\ IF ~Find(watchedList, item.id)
       THEN /\ watchedList' = Append(watchedList, item)
            /\ watchlist' = removeFromWatchlist(item.id)
       ELSE UNCHANGED <<watchedList, watchlist>>
    /\ wLast' = [op |-> "markAsWatched", id |-> item.id, listed |-> TRUE]
    /\ UNCHANGED notList

ListInit ==
    /\ watchlist = <<>>
    /\ watchedList = <<>>
    /\ wLast = [op |-> "none", id |-> 0, listed |-> FALSE]

ListNext ==
    \/ \E item \in ListItems : ClickAdd(item)
    \/ \E id \in 1..MaxListIds : ClickRemove(id)
    \/ \E item \in ListItems : ClickMarkAsWatched(item)

----------------------------------------------------------------------------
\* The specifications: one call of the enrichment engine; one cache instance
\* under any calls and the passing of time.

Init ==
    /\ EnrichInit /\ CacheDefault /\ RetryInit /\ ClientInit /\ AppInit
    /\ PageInit /\ MergeInit /\ GenreInit /\ NavInit /\ DebounceInit /\ ListInit

Next == EnrichNext

Spec == Init /\ [][Next]_vars

InitCache ==
    /\ EnrichInit /\ CacheInit /\ RetryInit /\ ClientInit /\ AppInit
    /\ PageInit /\ MergeInit /\ GenreInit /\ NavInit /\ DebounceInit /\ ListInit

NextCache == CacheNext

SpecCache == InitCache /\ [][NextCache]_vars

InitRetry == Init

NextRetry == RetryNext

SpecRetry == InitRetry /\ [][NextRetry]_vars

InitClient == Init

NextClient == ClientNext

SpecClient == InitClient /\ [][NextClient]_vars

InitApp == Init

NextApp == AppNext

SpecApp == InitApp /\ [][NextApp]_vars

InitPage == Init

NextPage == PageNext

SpecPage == InitPage /\ [][NextPage]_vars

InitMerge == Init

NextMerge == MergeNext

SpecMerge == InitMerge /\ [][NextMerge]_vars

InitGenre == Init

NextGenre == GenreNext

SpecGenre == InitGenre /\ [][NextGenre]_vars

InitNav == Init

NextNav == NavNext

SpecNav == InitNav /\ [][NextNav]_vars

InitList == Init

NextList == ListNext

SpecList == InitList /\ [][NextList]_vars

\* One call of the enrichment engine when every lookup that was issued
\* settles and a settled Promise.all resumes the call.
InitLive == Init

NextLive == EnrichNext

SpecLive ==
    /\ InitLive
    /\ [][NextLive]_vars
    /\ \A n \in 1..MaxItems : WF_vars(\E net \in NetOutcomes : Respond(n, net))
    /\ WF_vars(BatchSettled)

InitDebounce == Init

NextDebounce == DebounceNext

SpecDebounce == InitDebounce /\ [][NextDebounce]_vars

----------------------------------------------------------------------------
\* What the call must return at position n, from the item there and from what
\* that item's own lookup came back with.
OwnResult(n) ==
    IF outcome[n] = "ok"
    THEN mergeBasicData(tmdbItems[n], transformOMDBData(OmdbPayload(tmdbItems[n].title)))
    ELSE tmdbItems[n]

BatchOf(n) == (n - 1) \div maxConcurrent

\* C1: whatever the order in which the lookups of a batch complete, the call
\* returns a list as long as its input whose position n holds the record
\* built from input[n] and input[n]'s own lookup result (same id).
C1_OutputFollowsInput ==
    epc = "done" =>
        /\ Len(returned[1]) = Len(tmdbItems)
        /\ \A n \in 1..Len(tmdbItems) :
              /\ returned[1][n].id = tmdbItems[n].id
              /\ returned[1][n] = OwnResult(n)

\* A call over distinct records has returned after two lookups of one batch
\* completed in the reverse of their input order, with different answers.
C1_Witness ==
    /\ epc = "done"
    /\ \E a, b \in 1..Len(arrival) :
          /\ a < b
          /\ arrival[a] > arrival[b]
          /\ BatchOf(arrival[a]) = BatchOf(arrival[b])
          /\ tmdbItems[arrival[a]].id # tmdbItems[arrival[b]].id
          /\ outcome[arrival[a]] # outcome[arrival[b]]

\* C2: the lookups in flight never outnumber maxConcurrent, and a lookup of a
\* later batch is issued only after every lookup of the earlier batches has
\* settled.
C2_BoundedBatches ==
    /\ Cardinality(inFlight) <= maxConcurrent
    /\ \A n \in issued : \A m \in 1..Len(tmdbItems) :
          BatchOf(m) < BatchOf(n) => m \in Range(arrival)

\* After a first batch of at least two concurrent lookups has settled, the
\* second batch is out while the call waits on it.
C2_Witness ==
    /\ epc = "await"
    /\ i > 0
    /\ maxConcurrent >= 2
    /\ inFlight # {}
    /\ Cardinality(Range(arrival)) = maxConcurrent

\* C3: whichever lookups fail or find nothing, the call raises no error and
\* emits every record: those records as their primary fields alone, the
\* others merged with their enrichment.
C3_FailureIsolated ==
    /\ epc # "raised"
    /\ epc = "done" =>
          /\ Len(returned[1]) = Len(tmdbItems)
          /\ \A n \in 1..Len(tmdbItems) :
                /\ outcome[n] \in {"false", "neterr"} => returned[1][n] = tmdbItems[n]
                /\ outcome[n] = "ok" =>
                      returned[1][n] = mergeBasicData(tmdbItems[n],
                          transformOMDBData(OmdbPayload(tmdbItems[n].title)))

\* A batch of three has returned in which the middle lookup failed, another
\* found nothing and the third was merged.
C3_Witness ==
    /\ epc = "done"
    /\ maxConcurrent >= 3
    /\ Len(tmdbItems) = 3
    /\ outcome[2] = "neterr"
    /\ \E n \in {1, 3} : outcome[n] = "ok" /\ returned[1][n] # tmdbItems[n]
    /\ \E n \in {1, 3} : outcome[n] = "false"
    /\ returned[1][2] = tmdbItems[2]

----------------------------------------------------------------------------
\* C5: get never returns the value of an entry whose expiry is earlier than
\* the current time; an entry set with ttl T is a hit when read T - 1 ms
\* after the set and a miss when read T + 1 ms after it.
C5_NoStaleHit ==
    lastOp.op = "get" =>
        /\ lastOp.result # <<>> =>
              /\ MapHas(cache, lastOp.key)
              /\ MapGet(cache, lastOp.key).expiry >= now
              /\ MapGet(cache, lastOp.key).data = lastOp.result[1]
              /\ now <= setAt[lastOp.key][1] + ttl
        /\ (lastOp.key \in lastOp.pre /\ now = setAt[lastOp.key][1] + ttl - 1)
              => lastOp.result # <<>>
        /\ (lastOp.key \in lastOp.pre /\ now = setAt[lastOp.key][1] + ttl + 1)
              => lastOp.result = <<>>

\* An entry still in the store was read T + 1 after its set and missed.
C5_Witness ==
    /\ lastOp.op = "get"
    /\ lastOp.key \in lastOp.pre
    /\ now = setAt[lastOp.key][1] + ttl + 1
    /\ lastOp.result = <<>>
    /\ ~MapHas(cache, lastOp.key)

C7_BoundedFromOne ==
    CacheSize <= Max(maxSize, 1)

\* A set at capacity has happened and the store is exactly full.
C7_Witness ==
    /\ maxSize >= 1
    /\ lastOp.op = "set"
    /\ lastOp.key \notin lastOp.pre
    /\ Cardinality(lastOp.pre) = maxSize
    /\ CacheSize = maxSize

\* C7 as stated: for every maxSize >= 0, size() <= maxSize.
C7_Original ==
    CacheSize <= maxSize

----------------------------------------------------------------------------
\* C9: retryApiCall attempts the call at most maxRetries times, waits
\* delay * k before attempt k + 1, and when the maxRetries-th attempt has
\* failed too it rejects with that attempt's own error, and only then.
C9_LinearBackoff ==
    /\ rCalls <= rMaxRetries
    /\ \A k \in 1..Len(rWaits) : rWaits[k] = rDelay * k
    /\ rpc = "calling" => Len(rWaits) = rCalls - 1
    /\ (rMaxRetries >= 1 /\ Len(rErrors) = rMaxRetries)
          => (rpc = "thrown" /\ rThrown = <<rErrors[rMaxRetries]>>)
    /\ rpc = "thrown" => Len(rErrors) = rMaxRetries
    /\ (rpc \in {"waiting", "calling"} /\ rErrors # <<>>) => Len(rErrors) < rMaxRetries

\* Three attempts failed, after waits of delay and 2 * delay, and the call
\* rejected with the third error.
C9_Witness ==
    /\ rpc = "thrown"
    /\ rMaxRetries = 3
    /\ rDelay = 2
    /\ rWaits = <<2, 4>>
    /\ rThrown = <<rErrors[3]>>

\* C10: an attempt that fails with an authentication failure is the last
\* one: the call rejects with that failure without another attempt.
C10_AuthNotRetried ==
    \A k \in 1..Len(rErrors) :
        rErrors[k].kind = "auth401" =>
            /\ rCalls = k
            /\ rpc = "thrown"
            /\ rThrown = <<rErrors[k]>>

----------------------------------------------------------------------------
\* C4: the response of an older search request arriving after a newer request
\* was started never overwrites the state: once every request has settled,
\* the displayed results are what the request started last wrote.
C4_LatestSearchShown ==
    (searching = {} /\ latestId # 0 /\ latestWrote # <<>>)
        => searchResults = latestWrote[1]

\* C8: both clients memoize through the response cache: a request made again
\* (here always within the TTL, the store never being cleared or full) is
\* answered from the cache, so no request key goes on the wire twice.
C8_SecondFromCache ==
    \A k \in RequestKeys : netCalls[k] <= 1

----------------------------------------------------------------------------
\* C11: when the TMDB endpoint answers a trending or search page request with
\* HTTP 401, the error state the caller shows is the invalid-API-key
\* configuration message.
C11_AuthShownAsConfigError ==
    (pPrimary # <<>> /\ pPrimary[1].kind = "auth401" /\ pOp # "searchMulti")
        => pShown = <<InvalidKeyMessage>>

\* C13: when the primary fetch of getTrendingContent or searchContent fails,
\* the request rejects with an error naming the failed operation, nothing is
\* returned, and no OMDB lookup is sent.
C13_PrimaryFailureIsFatal ==
    (pPrimary # <<>> /\ pPrimary[1].kind # "ok" /\ pOp # "searchMulti")
        => /\ ppc = "thrown"
           /\ pResult = <<>>
           /\ pOmdbCalls = 0
           /\ pThrown # <<>>
           /\ pThrown[1].message =
                 IF pOp = "getTrendingContent" THEN "Failed to fetch trending content"
                 ELSE "Failed to search content"

\* A trending request failed on the network and the call rejected.
C13_Witness ==
    /\ ppc = "thrown"
    /\ pOp = "getTrendingContent"
    /\ pPrimary = <<[kind |-> "network"]>>
    /\ pThrown # <<>>

\* C14: a listing operation that got a page of n primary records resolves
\* with {results, page, totalPages, totalResults}: results holds n merged
\* records, one per primary record in order, and the three numbers are those
\* the TMDB endpoint reported.
C14_ListingWithPagination ==
    (ppc = "done" /\ pOp # "searchMulti" /\ pPrimary # <<>>)
        => LET data == pPrimary[1].data
               primary == IF pOp = "getTrendingContent"
                          THEN transformTrendingData(data.results)
                          ELSE transformSearchData(data.results)
               value == pResult[1]
           IN  /\ value.results # <<>>
               /\ Len(value.results[1]) = Len(primary)
               /\ \A k \in 1..Len(primary) : value.results[1][k].id = primary[k].id
               /\ value.page = <<data.page>>
               /\ value.totalPages = <<data.total_pages>>
               /\ value.totalResults = <<data.total_results>>

\* C15: a search whose query is empty or only whitespace resolves with an
\* empty result set and sends no request, to TMDB or to OMDB.
C15_BlankSearchSendsNothing ==
    (ppc # "idle" /\ pOp \in {"searchContent", "searchMulti"} /\ pQuery \in BlankQueries)
        => /\ ppc = "done"
           /\ pTmdbCalls = 0
           /\ pOmdbCalls = 0
           /\ pResult # <<>>
           /\ IF pOp = "searchContent"
              THEN pResult[1].shape = "object" /\ pResult[1].results = << <<>> >>
              ELSE pResult[1].shape = "array" /\ pResult[1].elements = <<>>

\* searchContent was called with a query of one space and has resolved.
C15_Witness ==
    /\ ppc = "done"
    /\ pOp = "searchContent"
    /\ pQuery = " "
    /\ pResult = <<BlankResults>>

----------------------------------------------------------------------------
\* C12: the OMDB client is fail-open: whatever the request came back with
\* (payload, "Response: False", network failure, malformed payload),
\* searchByTitle and searchByIMDBId resolve, with an enrichment record or with
\* null, and never reject; a record only comes from a payload.
C12_OmdbFailOpen ==
    lastLookup # <<>> =>
        /\ lastLookup[1].settled.state = "fulfilled"
        /\ Len(lastLookup[1].settled.value) <= 1
        /\ lastLookup[1].net \in {"false", "neterr"} => lastLookup[1].settled.value = <<>>
        /\ lastLookup[1].net = "ok" => lastLookup[1].settled.value # <<>>

\* searchByIMDBId met a network failure and resolved with null, after a
\* searchByTitle call.
C12_Witness ==
    /\ lastLookup # <<>>
    /\ lastLookup[1].op = "searchByIMDBId"
    /\ lastLookup[1].net = "neterr"
    /\ lastLookup[1].settled = Fulfilled(<<>>)
    /\ requests["omdb:t=Alpha"] > 0

----------------------------------------------------------------------------
\* C16: mergeBasicData / mergeDetailedData called with a null enrichment do
\* not throw: they return the primary record's fields unchanged.
C16_MergeWithNull ==
    (mpc = "done" /\ mOmdb = <<>>)
        => /\ ~mOut.threw
           /\ \A f \in DOMAIN mTmdb : mOut.value[1][f] = mTmdb[f]

\* C18: the merged plot is the OMDB plot when that is strictly longer than
\* the TMDB plot, and the TMDB plot otherwise (equal lengths, shorter, or no
\* OMDB plot).
C18_LongerPlotWins ==
    (mpc = "done" /\ mOmdb # <<>>)
        => /\ ~mOut.threw
           /\ mOut.value[1].plot =
                 IF Len(mOmdb[1].plot) > Len(mTmdb.plot) THEN mOmdb[1].plot
                 ELSE mTmdb.plot

\* Plots of equal length and different text were merged, and the TMDB plot
\* was kept.
C18_Witness ==
    /\ mpc = "done"
    /\ mOmdb # <<>>
    /\ mTmdb.plot = "short"
    /\ mOmdb[1].plot = "brief"
    /\ mOut.value[1].plot = "short"

\* C19: the merged record's rating (its imdb field) is the OMDB numeric
\* rating whenever the OMDB record carries one, and the TMDB rating otherwise.
C19_OmdbRatingWins ==
    (mpc = "done" /\ mOmdb # <<>>)
        => mOut.value[1].imdb =
              IF mOmdb[1].imdbRating # <<>> THEN mOmdb[1].imdbRating[1]
              ELSE mTmdb.rating

----------------------------------------------------------------------------
\* C17: every record enhanceWithOMDBData returns is structurally complete: a
\* record whose lookup found nothing or failed carries the same fields as an
\* enriched record, with the merged fields equal to the primary values.
C17_StructurallyComplete ==
    (epc = "done" /\ returned # <<>>)
        => \A n \in 1..Len(returned[1]) :
              outcome[n] # "ok" =>
                  /\ DOMAIN returned[1][n] =
                        DOMAIN mergeBasicData(tmdbItems[n],
                                   transformOMDBData(OmdbPayload(tmdbItems[n].title)))
                  /\ returned[1][n].imdb = tmdbItems[n].rating
                  /\ returned[1][n].plot = tmdbItems[n].plot

----------------------------------------------------------------------------
\* The position in the concatenated list at which an id occurs first.
FirstOccurrence(allGenres, id) ==
    CHOOSE j \in DOMAIN allGenres :
        /\ allGenres[j].id = id
        /\ \A h \in 1..(j - 1) : allGenres[h].id # id

\* C20: the list getGenres builds from the movie genres followed by the
\* series genres holds each distinct id exactly once, is as long as there are
\* distinct ids, keeps for an id the name of its first occurrence, and is in
\* the order of first occurrence; it is what the call returns and caches.
C20_GenresDeduplicated ==
    genreCache # <<>> =>
        LET allGenres == gMovie \o gTv
            uniqueGenres == genreCache[1]
        IN  /\ \A j \in DOMAIN allGenres :
                  Cardinality({k \in DOMAIN uniqueGenres :
                                  uniqueGenres[k].id = allGenres[j].id}) = 1
            /\ Len(uniqueGenres) = Cardinality({allGenres[j].id : j \in DOMAIN allGenres})
            /\ \A k \in DOMAIN uniqueGenres :
                  uniqueGenres[k] = allGenres[FirstOccurrence(allGenres, uniqueGenres[k].id)]
            /\ \A k1, k2 \in DOMAIN uniqueGenres :
                  k1 < k2 => FirstOccurrence(allGenres, uniqueGenres[k1].id)
                                < FirstOccurrence(allGenres, uniqueGenres[k2].id)
            /\ gReturned # <<>> => gReturned = genreCache

\* The two lists share id 28 under different names; the list built keeps the
\* movie list's name and is shorter than the concatenation.
C20_Witness ==
    /\ gMovie = << [id |-> 28, name |-> "Action"], [id |-> 18, name |-> "Drama"] >>
    /\ gTv = << [id |-> 28, name |-> "Adventure"] >>
    /\ genreCache = <<gMovie>>
    /\ gReturned = genreCache

----------------------------------------------------------------------------
\* C21: once a getGenres call has completed successfully, a later getGenres
\* call sends no genre request and returns the same list (the one the first
\* successful call cached).
C21_GenresFetchedOnce ==
    (gLast.op = "call" /\ gLast.cached)
        => /\ ~gLast.fetched
           /\ gReturned = gFirst

----------------------------------------------------------------------------
\* C28: a getGenres call that fails rejects and leaves the registry as it
\* was, so unpopulated if it was; what the registry holds is always the list
\* built from both lists of one successful fetch, never a partial one; and a
\* call made while the registry is unpopulated sends the requests again.
C28_FailedFetchCachesNothing ==
    /\ gLast.op = "fail" =>
          /\ gpc = "thrown"
          /\ ~gLast.cached => genreCache = <<>>
    /\ genreCache # <<>> =>
          /\ gFirst # <<>>
          /\ genreCache[1] = Reduce(gMovie \o gTv, <<>>)
    /\ (gLast.op = "call" /\ ~gLast.cached) => gLast.fetched

\* A first call failed and nothing was cached; the next call has sent the
\* requests again.
C28_Witness ==
    /\ gLast = [op |-> "call", cached |-> FALSE, fetched |-> TRUE]
    /\ gpc = "thrown"
    /\ gFetches = 2
    /\ gPending = 1
    /\ genreCache = <<>>

----------------------------------------------------------------------------
\* C22: for 1 <= currentPage <= totalPages and maxVisible >= 1,
\* generatePageNumbers returns consecutive ascending page numbers, as many as
\* min(maxVisible, totalPages), all within 1..totalPages, one of them
\* currentPage; (50, 100, 5) gives 48..52, (1, 100, 5) gives 1..5 and
\* (3, 3, 5) gives 1..3.
C22_PageWindow ==
    nOp = "generatePageNumbers" =>
        /\ (1 <= nArgs[1] /\ nArgs[1] <= nArgs[2] /\ nArgs[3] >= 1) =>
              /\ Len(nPages) = IF nArgs[3] < nArgs[2] THEN nArgs[3] ELSE nArgs[2]
              /\ \A k \in 1..Len(nPages) : nPages[k] \in 1..nArgs[2]
              /\ \A k \in 1..Len(nPages) - 1 : nPages[k + 1] = nPages[k] + 1
              /\ \E k \in 1..Len(nPages) : nPages[k] = nArgs[1]
        /\ nArgs = <<50, 100, 5>> => nPages = <<48, 49, 50, 51, 52>>
        /\ nArgs = <<1, 100, 5>> => nPages = <<1, 2, 3, 4, 5>>
        /\ nArgs = <<3, 3, 5>> => nPages = <<1, 2, 3>>

\* The window has been pulled back from the last page: page 6 of 6, three
\* visible.
C22_Witness ==
    /\ nOp = "generatePageNumbers"
    /\ nArgs = <<6, 6, 3>>
    /\ nPages = <<4, 5, 6>>

\* C23: getItemsRange returns start = (currentPage - 1) * itemsPerPage + 1 and
\* end = min(currentPage * itemsPerPage, totalItems); on a page that exists
\* 1 <= start <= end <= totalItems; (3, 20, 45) gives 41..45.
C23_ItemsRange ==
    nOp = "getItemsRange" =>
        LET currentPage == nArgs[1]
            itemsPerPage == nArgs[2]
            totalItems == nArgs[3]
            full == currentPage * itemsPerPage
        IN  /\ nRange.start = (currentPage - 1) * itemsPerPage + 1
            /\ nRange.end = IF full < totalItems THEN full ELSE totalItems
            /\ (currentPage >= 1 /\ (currentPage - 1) * itemsPerPage < totalItems) =>
                  /\ 1 <= nRange.start
                  /\ nRange.start <= nRange.end
                  /\ nRange.end <= totalItems
            /\ nArgs = <<3, 20, 45>> => nRange = [start |-> 41, end |-> 45]

\* The last, partly filled page: page 3 of 7 items, three to a page.
C23_Witness ==
    /\ nOp = "getItemsRange"
    /\ nArgs = <<3, 3, 7>>
    /\ nRange = [start |-> 7, end |-> 7]

\* C24: in every state createPaginationInfo returns, the four flags agree with
\* the currentPage and totalPages of that same state.
C24_FlagsAgree ==
    nOp = "createPaginationInfo" =>
        /\ nInfo.hasNextPage = (nInfo.currentPage < nInfo.totalPages)
        /\ nInfo.hasPrevPage = (nInfo.currentPage > 1)
        /\ nInfo.isFirstPage = (nInfo.currentPage = 1)
        /\ nInfo.isLastPage = (nInfo.currentPage = nInfo.totalPages)

----------------------------------------------------------------------------
\* C25 as stated: a search request is issued only for a query value that has
\* stayed unchanged for the full wait; once a burst of changes has been
\* followed by the wait, exactly one request has been issued for it, after the
\* last change and with the last value; and debounce() has invoked func once,
\* with the arguments of the last call.
C25_OneRequestPerBurst ==
    /\ \A k \in 1..Len(dRuns) :
          /\ dRuns[k].at >= dRuns[k].since + SearchWait
          /\ dRuns[k].value = dRuns[k].current
    /\ dTimers # {} => dIssued = <<>>
    /\ (dTimers = {} /\ dChanges > 0) =>
          /\ Len(dIssued) = 1
          /\ dIssued[1] = [at |-> dChangedAt + SearchWait, value |-> dQuery]
    /\ hTimers # {} => hInvoked = <<>>
    /\ (hTimers = {} /\ hCalls > 0) =>
          /\ Len(hInvoked) = 1
          /\ hInvoked[1] = [at |-> hCalledAt + hWait[1], args |-> hArgs]

\* C25, for the search effect as it is: the callback runs only for a value
\* unchanged for the full wait and once per burst, after the last change and
\* with the last value; it issues the one request when that value is not
\* empty and none when it is.  debounce() invokes func once, with the
\* arguments of the last call.
C25_OneCallbackPerBurst ==
    /\ \A k \in 1..Len(dRuns) :
          /\ dRuns[k].at >= dRuns[k].since + SearchWait
          /\ dRuns[k].value = dRuns[k].current
    /\ dTimers # {} => dRuns = <<>> /\ dIssued = <<>>
    /\ (dTimers = {} /\ dChanges > 0) =>
          /\ Len(dRuns) = 1
          /\ dRuns[1].at = dChangedAt + SearchWait
          /\ dRuns[1].value = dQuery
          /\ dIssued = IF dQuery = ""
                       THEN <<>>
                       ELSE <<[at |-> dChangedAt + SearchWait, value |-> dQuery]>>
    /\ hTimers # {} => hInvoked = <<>>
    /\ (hTimers = {} /\ hCalls > 0) =>
          /\ Len(hInvoked) = 1
          /\ hInvoked[1] = [at |-> hCalledAt + hWait[1], args |-> hArgs]

\* A burst of three changes, the last one later than the first, has ended
\* with the one request for "b".
C25_Witness ==
    /\ dBurst = 3
    /\ dChangedAt > 0
    /\ dTimers = {}
    /\ dQuery = "b"
    /\ dIssued = <<[at |-> dChangedAt + SearchWait, value |-> "b"]>>

----------------------------------------------------------------------------
\* C26: set of a key that is already in the store removes no other entry and
\* leaves size() as it was, also when the store holds maxSize entries: the
\* keys after the call are the keys before it.
C26_OverwriteKeepsOthers ==
    (lastOp.op = "set" /\ lastOp.key \in lastOp.pre) =>
        /\ MapKeys(cache) = lastOp.pre
        /\ CacheSize = Cardinality(lastOp.pre)

----------------------------------------------------------------------------
\* C27: when every issued lookup settles, a call of enhanceWithOMDBData, for
\* any list and any concurrency >= 0, eventually returns.
C27_Terminates ==
    (epc = "await") ~> (epc = "done")

----------------------------------------------------------------------------
\* C29: after any clicks the UI offers, neither list holds two items with the
\* same id, no id is in both lists, and markAsWatched of a watchlisted item
\* has moved it: it is in the watched list and no longer in the watchlist.
C29_ListsDisjoint ==
    /\ \A m, n \in 1..Len(watchlist) : watchlist[m].id = watchlist[n].id => m = n
    /\ \A m, n \in 1..Len(watchedList) :
          watchedList[m].id = watchedList[n].id => m = n
    /\ \A m \in 1..Len(watchlist), n \in 1..Len(watchedList) :
          watchlist[m].id # watchedList[n].id
    /\ (wLast.op = "markAsWatched" /\ wLast.listed) =>
          /\ \E n \in 1..Len(watchedList) : watchedList[n].id = wLast.id
          /\ \A n \in 1..Len(watchlist) : watchlist[n].id # wLast.id

\* Item 2 was moved to the watched list, which held item 1 already; item 3
\* stays on the watchlist.
C29_Witness ==
    /\ wLast = [op |-> "markAsWatched", id |-> 2, listed |-> TRUE]
    /\ watchedList = <<[id |-> 1], [id |-> 2]>>
    /\ watchlist = <<[id |-> 3]>>

----------------------------------------------------------------------------
\* C30: isLoading is true whenever a search request or the initial load is in
\* flight, also when several overlap, and false once all of them have settled.
C30_LoadingTracksInFlight ==
    isLoading = (searching # {} \/ initializing)

============================================================================
